---- MODULE Spec2Model ----
(***************************************************************************)
(* A model of ogr2osm2.py: the geometry graph (Point, Way, Relation,       *)
(* Feature with parent sets), the parsers that build it from source        *)
(* records, mergePoints and output.                                        *)
(*                                                                         *)
(* A Python object is modelled by its handle: a Geometry by its index in   *)
(* objs (every Geometry ever constructed, live or destroyed), a Feature by *)
(* its index in features.  A member of a parents set is <<"G", k>> for the *)
(* Geometry k or <<"F", f>> for the Feature f.                             *)
(*                                                                         *)
(* The functions of the program are operators from a state record S to a   *)
(* state record; an uncaught exception sets S.err and the statements after *)
(* it do not run.                                                          *)
(***************************************************************************)
EXTENDS Integers, Sequences, FiniteSets, TLC

VARIABLES
    objs,              \* every Geometry constructed so far, by handle
    geometries,        \* the global list geometries: handles of the live ones
    features,          \* the global list features
    elementIdCounter,  \* the global counter of getNewID
    zpoints,           \* the global z-marker table
    err,               \* the exception that ended the run, or NoErr
    pc,                \* the statement of the main flow that runs next
    nread,             \* records read by parseLayer
    nedits,            \* removeparent / replacejwithi calls (SpecGraph)
    docs,              \* the documents written by the calls of output()
    op                 \* the last operation, its arguments and return value

vars == <<objs, geometries, features, elementIdCounter, zpoints, err, pc, nread,
          nedits, docs, op>>

\* ------------------------------------------------------------- bounds
\* Source records parsed in one run.
MaxRecords == 2
\* Entries of the z-marker table.
MaxZ == 1
\* Geometries constructed through the graph interface (SpecGraph).
MaxGraphObjs == 3
\* Slots of one Way or Relation built through the graph interface.
MaxSlots == 2
\* Calls of removeparent / replacejwithi through the graph interface.
MaxEdits == 1
\* Calls of output() through the graph interface.
MaxOutputCalls == 2
\* Features attached through the graph interface.
MaxGraphFeatures == 1

\* ------------------------------------------------------------- helpers
Range(s) == {s[k] : k \in DOMAIN s}

Reverse(s) == [k \in 1..Len(s) |-> s[Len(s) + 1 - k]]

\* list.remove(e): drops the first occurrence of e (e is in s).
listRemove(s, e) ==
    LET k == CHOOSE n \in 1..Len(s) : s[n] = e /\ \A m \in 1..(n - 1) : s[m] # e
    IN  SubSeq(s, 1, k - 1) \o SubSeq(s, k + 1, Len(s))

\* The sequences over set of length at most n.
SeqsUpTo(set, n) == UNION {[1..m -> set] : m \in 0..n}

NoErr == "none"

\* ------------------------------------------------------------- state
State ==
    [objs |-> objs, geometries |-> geometries, features |-> features,
     elementIdCounter |-> elementIdCounter, err |-> err, ret |-> 0]

GRef(k) == <<"G", k>>
FRef(f) == <<"F", f>>

\* ------------------------------------------------------------- identity
\* getNewID(): the counter after the decrement is the value returned.
getNewID_NoDecrement(S) == S

getNewID(S) == [S EXCEPT !.elementIdCounter = @ - 1]

\* ------------------------------------------------------------- classes
\* Geometry.__init__ followed by the subclass's field assignments.  The new
\* object's handle is Len(S.objs) + 1 and is left in ret.
Geometry_init(S, t, x, y, z) ==
    LET S1 == getNewID(S)
        o  == [type |-> t, id |-> S1.elementIdCounter, parents |-> {},
               x |-> x, y |-> y, z |-> z, points |-> <<>>, members |-> <<>>]
        h  == Len(S.objs) + 1
    IN  [S1 EXCEPT !.objs = Append(@, o), !.geometries = Append(@, h), !.ret = h]

Point(S, x, y, z) == Geometry_init(S, "Point", x, y, z)

Way(S) == Geometry_init(S, "Way", 0, 0, 0)

Relation(S) == Geometry_init(S, "Relation", 0, 0, 0)

\* Feature.__init__: appended to features; geometry is None (0) until set.
Feature(S) ==
    [S EXCEPT !.features = Append(@, [geometry |-> 0, tags |-> <<>>]),
              !.ret = Len(S.features) + 1]

addparent(S, e, parent) == [S EXCEPT !.objs[e].parents = @ \cup {parent}]

removeparent_NeverDestroy(S, e, parent, shoulddestroy) ==
    [S EXCEPT !.objs[e].parents = @ \ {parent}]

\* parents.discard(parent); geometries.remove(self) raises ValueError when
\* self is no longer in the list.
removeparent(S, e, parent, shoulddestroy) ==
    LET S1 == [S EXCEPT !.objs[e].parents = @ \ {parent}]
    IN  IF shoulddestroy /\ S1.objs[e].parents = {}
        THEN IF e \in Range(S1.geometries)
             THEN [S1 EXCEPT !.geometries = listRemove(@, e)]
             ELSE [S1 EXCEPT !.err = "ValueError"]
        ELSE S1

\* The tail shared by the three replacejwithi methods:
\*     j.removeparent(self); i.addparent(self)
moveParent(S, self, i, j) ==
    LET S1 == removeparent(S, j, self, TRUE)
    IN  IF S1.err # NoErr THEN S1 ELSE addparent(S1, i, self)

Way_replacejwithi_KeepPoints(S, w, i, j) == moveParent(S, GRef(w), i, j)

Way_replacejwithi(S, w, i, j) ==
    LET S1 == [S EXCEPT !.objs[w].points =
                   [k \in DOMAIN @ |-> IF @[k] = j THEN i ELSE @[k]]]
    IN  moveParent(S1, GRef(w), i, j)

\* x == j for a member slot x = (entity, role) and a Geometry j: a tuple is
\* never equal to an instance.
TupleEqObject(x, j) == FALSE

Relation_replacejwithi(S, r, i, j) ==
    LET S1 == [S EXCEPT !.objs[r].members =
                   [k \in DOMAIN @ |-> IF TupleEqObject(@[k], j) THEN i ELSE @[k]]]
    IN  moveParent(S1, GRef(r), i, j)

Feature_replacejwithi(S, f, i, j) ==
    LET S1 == IF S.features[f].geometry = j
              THEN [S EXCEPT !.features[f].geometry = i]
              ELSE S
    IN  moveParent(S1, FRef(f), i, j)

\* parent.replacejwithi(i, j), dispatched on the class of parent.
replacejwithi(S, parent, i, j) ==
    IF parent[1] = "F" THEN Feature_replacejwithi(S, parent[2], i, j)
    ELSE CASE S.objs[parent[2]].type = "Way" -> Way_replacejwithi(S, parent[2], i, j)
           [] S.objs[parent[2]].type = "Relation" ->
                  Relation_replacejwithi(S, parent[2], i, j)
           [] OTHER -> S

\* ------------------------------------------------------------- parsing
\* A source record: kind is the OGR geometry type of the record ("null": no
\* record, "nogeom": a record without geometry), ID and Direction are its
\* fields, pts the vertices of a point or line string, parts the rings of a
\* polygon, the polygons of a multipolygon or the parts of a collection.
Rec(kind, ID, Direction, pts, parts) ==
    [kind |-> kind, ID |-> ID, Direction |-> Direction, pts |-> pts, parts |-> parts]

\* getFeatureTags: oneway and rDirection from the Direction field, id from
\* the ID field.  The name and highway tags are left out: nothing but the
\* writer reads them.
getFeatureTags(rec) ==
    LET d == rec.Direction
    IN  CASE d = "0" \/ d = "1" -> [oneway |-> "no", rDirection |-> "no", id |-> rec.ID]
          [] d = "2" -> [oneway |-> "yes", rDirection |-> "no", id |-> rec.ID]
          [] d = "3" -> [oneway |-> "yes", rDirection |-> "yes", id |-> rec.ID]
          [] OTHER -> [oneway |-> "no", rDirection |-> "no", id |-> rec.ID]

\* An entry of zpoints, "id|seq", is the pair <<id, seq>>; str(i) == ids[1]
\* is an equality of the numbers both strings write.
\* str(i) == ogrgeometry.GetPointCount()-1 compares a str with an int.
StrEqInt(s, n) == FALSE

\* The entries of zpoints for which the loop body builds a new Point(x, y, 1)
\* at vertex i of the line string strID with count vertices.
zLineMatches(strID, i, count) ==
    {k \in DOMAIN zpoints :
        \/ strID = zpoints[k][1] /\ i = zpoints[k][2]
        \/ /\ ~(strID = zpoints[k][1] /\ i = zpoints[k][2])
           /\ strID = zpoints[k][1] /\ zpoints[k][2] = -1 /\ StrEqInt(i, count - 1)}

zCollectionMatches(strID, nCount) ==
    {k \in DOMAIN zpoints : strID = zpoints[k][1] /\ nCount = zpoints[k][2]}

\* n times mypoint = Point(x, y, 1).
RECURSIVE zPoints(_, _, _, _)
zPoints(S, x, y, n) == IF n = 0 THEN S ELSE zPoints(Point(S, x, y, 1), x, y, n - 1)

\* geometry.points.append(mypoint); mypoint.addparent(geometry)
appendPoint(S, way, mypoint) ==
    addparent([S EXCEPT !.objs[way].points = Append(@, mypoint)], mypoint, GRef(way))

\* The vertex loop of parseLineString from vertex i (1-based here) on.
RECURSIVE parseLineString_loop(_, _, _, _, _)
parseLineString_loop(S, way, strID, pts, i) ==
    IF i > Len(pts) THEN S
    ELSE LET S0 == Point(S, pts[i][1], pts[i][2], 0)
             S1 == zPoints(S0, pts[i][1], pts[i][2],
                           Cardinality(zLineMatches(strID, i - 1, Len(pts))))
         IN  parseLineString_loop(appendPoint(S1, way, S1.ret), way, strID, pts, i + 1)

parseLineString(S, strID, pts) ==
    LET S0 == Way(S)
    IN  [parseLineString_loop(S0, S0.ret, strID, pts, 1) EXCEPT !.ret = S0.ret]

\* parseLineString(ring): the call gives one argument to a function of two
\* and raises TypeError before its body runs.
parseLineString_1arg(S, ring) == [S EXCEPT !.err = "TypeError"]

parsePoint(S, pts) == Point(S, pts[1][1], pts[1][2], 0)

\* geometry.members.append((way, role)) after way.addparent(geometry)
appendMember(S, rel, way, role) ==
    LET S1 == addparent(S, way, GRef(rel))
    IN  [S1 EXCEPT !.objs[rel].members = Append(@, <<way, role>>)]

\* The interior rings i.. of a polygon, appended to the Relation rel.
RECURSIVE interiorRings(_, _, _, _)
interiorRings(S, rel, rings, i) ==
    IF i > Len(rings) \/ S.err # NoErr THEN S
    ELSE LET S1 == parseLineString_1arg(S, rings[i])
         IN  IF S1.err # NoErr THEN S1
             ELSE interiorRings(appendMember(S1, rel, S1.ret, "inner"), rel, rings, i + 1)

parsePolygon(S, rings) ==
    IF Len(rings) = 0 THEN [S EXCEPT !.ret = 0]
    ELSE IF Len(rings) = 1 THEN parseLineString_1arg(S, rings[1])
    ELSE LET S0 == Relation(S)
             rel == S0.ret
             S1 == parseLineString_1arg(S0, rings[1])
         IN  IF S1.err # NoErr
             THEN [S1 EXCEPT !.err = NoErr, !.ret = 0]
             ELSE [interiorRings(appendMember(S1, rel, S1.ret, "outer"), rel, rings, 2)
                      EXCEPT !.ret = rel]

\* The polygons p.. of a multipolygon, appended to the Relation rel.
RECURSIVE multiPolygons(_, _, _, _)
multiPolygons(S, rel, polys, p) ==
    IF p > Len(polys) \/ S.err # NoErr THEN S
    ELSE LET S1 == parseLineString_1arg(S, polys[p][1])
         IN  IF S1.err # NoErr THEN S1
             ELSE multiPolygons(
                      interiorRings(appendMember(S1, rel, S1.ret, "outer"), rel, polys[p], 2),
                      rel, polys, p + 1)

\* The vertices of the parts of a collection in the order of the two loops,
\* without the first vertex of every part but the first.
RECURSIVE collectionVertices(_, _)
collectionVertices(parts, j) ==
    IF j > Len(parts) THEN <<>>
    ELSE (IF j = 1 \/ parts[j] = <<>> THEN parts[j] ELSE Tail(parts[j]))
             \o collectionVertices(parts, j + 1)

RECURSIVE parseCollection_loop(_, _, _, _, _)
parseCollection_loop(S, way, strID, vs, n) ==
    IF n > Len(vs) THEN S
    ELSE LET S0 == Point(S, vs[n][1], vs[n][2], 0)
             S1 == zPoints(S0, vs[n][1], vs[n][2],
                           Cardinality(zCollectionMatches(strID, n - 1)))
         IN  parseCollection_loop(appendPoint(S1, way, S1.ret), way, strID, vs, n + 1)

\* The multipolygon branch ends without a return statement.
parseCollection(S, rec) ==
    IF rec.kind = "multipolygon"
    THEN LET S0 == Relation(S)
         IN  [multiPolygons(S0, S0.ret, rec.parts, 1) EXCEPT !.ret = 0]
    ELSE LET S0 == Way(S)
             vs == collectionVertices(rec.parts, 1)
         IN  [parseCollection_loop(S0, S0.ret, rec.ID, vs, 1) EXCEPT !.ret = S0.ret]

parseGeometry(S, rec) ==
    CASE rec.kind = "point" -> parsePoint(S, rec.pts)
      [] rec.kind = "line" -> parseLineString(S, rec.ID, rec.pts)
      [] rec.kind = "polygon" -> parsePolygon(S, rec.parts)
      [] rec.kind \in {"multipolygon", "collection"} -> parseCollection(S, rec)
      [] OTHER -> [S EXCEPT !.ret = 0]

\* feature = Feature(); feature.geometry = geometry; feature.tags = ...;
\* geometry.addparent(feature)
attachFeature(S, geometry, tags) ==
    LET S1 == Feature(S)
        f  == S1.ret
    IN  addparent([S1 EXCEPT !.features[f] = [geometry |-> geometry, tags |-> tags]],
                  geometry, FRef(f))

parseFeature(S, rec) ==
    IF rec.kind = "null" \/ rec.kind = "nogeom" THEN [S EXCEPT !.ret = 0]
    ELSE LET S1 == parseGeometry(S, rec)
         IN  IF S1.err # NoErr \/ S1.ret = 0 THEN S1
             ELSE [attachFeature(S1, S1.ret, getFeatureTags(rec)) EXCEPT !.ret = S1.ret]

\* ------------------------------------------------------------- mergePoints
isType(S, t) == LET Test(g) == S.objs[g].type = t IN SelectSeq(S.geometries, Test)

\* A grouping key without the z flag.
location_IgnoresZ(S, p) == <<S.objs[p].x, S.objs[p].y, 0>>

location(S, p) == <<S.objs[p].x, S.objs[p].y, S.objs[p].z>>

\* pointcoords[loc]: the live Points at loc, in the order of geometries.
pointsatloc(S, loc) ==
    LET Test(p) == S.objs[p].type = "Point" /\ location(S, p) = loc
    IN  SelectSeq(S.geometries, Test)

\* A dict's items() and a set are iterated in an order the interpreter
\* chooses.  The model lets it be ascending or descending in rank.
parentRank(parent) == IF parent[1] = "G" THEN 2 * parent[2] ELSE 2 * parent[2] + 1

nextParent(todo, desc) ==
    CHOOSE q \in todo : \A r \in todo :
        IF desc THEN parentRank(r) <= parentRank(q) ELSE parentRank(q) <= parentRank(r)

\* for parent in set(point.parents): parent.replacejwithi(survivor, point)
RECURSIVE mergeParents(_, _, _, _, _)
mergeParents(S, survivor, point, todo, desc) ==
    IF todo = {} \/ S.err # NoErr THEN S
    ELSE LET q == nextParent(todo, desc)
         IN  mergeParents(replacejwithi(S, q, survivor, point), survivor, point,
                          todo \ {q}, desc)

\* A duplicate loop that stops after the first duplicate, pointsatloc[1:2].
mergeGroup_FirstDuplicateOnly(S, atloc, k, desc) ==
    IF k # 2 \/ k > Len(atloc) \/ S.err # NoErr THEN S
    ELSE mergeParents(S, atloc[1], atloc[k], S.objs[atloc[k]].parents, desc)

\* for point in pointsatloc[1:]: ...
RECURSIVE mergeGroup(_, _, _, _)
mergeGroup(S, atloc, k, desc) ==
    IF k > Len(atloc) \/ S.err # NoErr THEN S
    ELSE mergeGroup(mergeParents(S, atloc[1], atloc[k], S.objs[atloc[k]].parents, desc),
                    atloc, k + 1, desc)

\* for (location, pointsatloc) in pointcoords.items(): ...  groups holds the
\* lists of pointcoords that are still to be visited.
RECURSIVE mergeGroups(_, _, _, _)
mergeGroups(S, groups, gdesc, pdesc) ==
    IF groups = {} \/ S.err # NoErr THEN S
    ELSE LET g == CHOOSE a \in groups : \A b \in groups :
                      IF gdesc THEN b[1] <= a[1] ELSE a[1] <= b[1]
         IN  mergeGroups(IF Len(g) > 1 THEN mergeGroup(S, g, 2, pdesc) ELSE S,
                         groups \ {g}, gdesc, pdesc)

mergePoints(S, gdesc, pdesc) ==
    LET points == isType(S, "Point")
        groups == {pointsatloc(S, location(S, p)) : p \in Range(points)}
    IN  mergeGroups(S, groups, gdesc, pdesc)

\* ------------------------------------------------------------- output
\* featuresmap = {feature.geometry: feature for feature in features}: of
\* the Features with the same geometry the last one stays.
inFeaturesmap(S, g) == \E f \in DOMAIN S.features : S.features[f].geometry = g

featuresmap(S, g) ==
    CHOOSE f \in DOMAIN S.features :
        /\ S.features[f].geometry = g
        /\ \A f2 \in DOMAIN S.features : S.features[f2].geometry = g => f2 <= f

NoTags == <<>>

tagsOf(S, g) == IF inFeaturesmap(S, g) THEN S.features[featuresmap(S, g)].tags ELSE NoTags

\* The test before way.points.reverse().
reversesWay(S, way) ==
    /\ inFeaturesmap(S, way)
    /\ S.features[featuresmap(S, way)].tags.oneway = "yes"
    /\ S.features[featuresmap(S, way)].tags.rDirection = "yes"

\* The graph after output(): the points of every qualifying live Way are
\* reversed in place.
outputGraph(S) ==
    [S EXCEPT !.objs = [k \in DOMAIN @ |->
        IF @[k].type = "Way" /\ k \in Range(S.geometries) /\ reversesWay(S, k)
        THEN [@[k] EXCEPT !.points = Reverse(@)]
        ELSE @[k]]]

Elem(rec, id, refs, tags) == [rec |-> rec, id |-> id, refs |-> refs, tags |-> tags]

\* The elements output() writes, in the order it writes them: a node, a way
\* with its nd refs, a relation with its (member ref, role) pairs.
outputDoc(S) ==
    LET T == outputGraph(S)
        nodes == isType(S, "Point")
        ways == isType(S, "Way")
        relations == isType(S, "Relation")
    IN  [k \in DOMAIN nodes |-> Elem("node", T.objs[nodes[k]].id, <<>>, tagsOf(S, nodes[k]))]
        \o [k \in DOMAIN ways |->
               Elem("way", T.objs[ways[k]].id,
                    [n \in DOMAIN T.objs[ways[k]].points |->
                        T.objs[T.objs[ways[k]].points[n]].id],
                    tagsOf(S, ways[k]))]
        \o [k \in DOMAIN relations |->
               Elem("relation", T.objs[relations[k]].id,
                    [n \in DOMAIN T.objs[relations[k]].members |->
                        <<T.objs[T.objs[relations[k]].members[n][1]].id,
                          T.objs[relations[k]].members[n][2]>>],
                    tagsOf(S, relations[k]))]

\* ------------------------------------------------------------- inputs
Coords == {<<10, 20>>, <<11, 20>>}

LineIDs == {"A", "B"}

PointIDs == {"P", "Q"}

Directions == {"2", "3"}

Roles == {"outer", "inner"}

Ring == <<<<10, 20>>, <<11, 20>>, <<10, 20>>>>

\* What getzPoint puts in zpoints for a marker at vertex 0 of the line "A".
ZEntries == {<<"A", 0>>}

\* The vertex lists of the line records: empty, one vertex, two vertices in
\* both directions, and a closed ring.
LinePts ==
    {<<>>, <<<<10, 20>>>>, <<<<10, 20>>, <<11, 20>>>>, <<<<11, 20>>, <<10, 20>>>>, Ring}

LineRecords ==
    {Rec("line", id, d, pts, <<>>) :
        id \in LineIDs, d \in Directions, pts \in LinePts}

PointRecords == {Rec("point", id, "0", <<<<10, 20>>>>, <<>>) : id \in PointIDs}

PolygonRecords == {Rec("polygon", "A", "1", <<>>, rings) : rings \in SeqsUpTo({Ring}, 2)}

CollectionRecords ==
    {Rec("multipolygon", "A", "1", <<>>, polys) : polys \in {<<>>, <<<<Ring>>>>}}
    \cup {Rec("collection", "A", "2", <<>>, <<<<<<10, 20>>, <<11, 20>>>>, <<<<11, 20>>, <<10, 20>>>>>>)}

OtherRecords == {Rec(k, "A", "1", <<>>, <<>>) : k \in {"null", "nogeom", "unhandled"}}

Records == LineRecords \cup PointRecords \cup PolygonRecords \cup CollectionRecords
               \cup OtherRecords

Handles == 1..Len(objs)

HandlesOf(t) == {k \in Handles : objs[k].type = t}

ParentRefs == {GRef(k) : k \in Handles} \cup {FRef(f) : f \in DOMAIN features}

Op(name, args, ret) == [name |-> name, args |-> args, ret |-> ret]

\* ------------------------------------------------------------- the run
Install(S) ==
    /\ objs' = S.objs
    /\ geometries' = S.geometries
    /\ features' = S.features
    /\ elementIdCounter' = S.elementIdCounter
    /\ err' = S.err

Init ==
    /\ objs = <<>>
    /\ geometries = <<>>
    /\ features = <<>>
    /\ elementIdCounter = 0
    /\ zpoints = <<>>
    /\ err = NoErr
    /\ pc = "getzPoint"
    /\ nread = 0
    /\ nedits = 0
    /\ docs = <<>>
    /\ op = Op("init", <<>>, 0)

\* parseData's call of getzPoint(): zpoints is filled from the two marker
\* files.
getzPoint ==
    /\ pc = "getzPoint"
    /\ zpoints' \in SeqsUpTo(ZEntries, MaxZ)
    /\ pc' = "parseLayer"
    /\ op' = Op("getzPoint", <<>>, 0)
    /\ UNCHANGED <<objs, geometries, features, elementIdCounter, err, nread, nedits, docs>>

\* One round of parseLayer's loop: parseFeature on the next record.  An
\* exception that parseFeature lets through ends the run.
ParseFeature ==
    /\ pc = "parseLayer"
    /\ nread < MaxRecords
    /\ \E rec \in Records :
          LET S == parseFeature(State, rec)
          IN  /\ Install(S)
              /\ op' = Op("parseFeature", <<rec>>, S.ret)
              /\ pc' = IF S.err # NoErr THEN "crashed" ELSE "parseLayer"
    /\ nread' = nread + 1
    /\ UNCHANGED <<zpoints, nedits, docs>>

\* The layer is exhausted: mergePoints().
MergePoints ==
    /\ pc = "parseLayer"
    /\ \E gdesc \in BOOLEAN, pdesc \in BOOLEAN :
          LET S == mergePoints(State, gdesc, pdesc)
          IN  /\ Install(S)
              /\ pc' = IF S.err # NoErr THEN "crashed" ELSE "preOutputTransform"
    /\ op' = Op("mergePoints", <<>>, 0)
    /\ UNCHANGED <<zpoints, nread, nedits, docs>>

\* translations.preOutputTransform(geometries, features), the default hook.
PreOutputTransform ==
    /\ pc = "preOutputTransform"
    /\ pc' = "output"
    /\ op' = Op("preOutputTransform", <<>>, 0)
    /\ UNCHANGED <<objs, geometries, features, elementIdCounter, zpoints, err, nread,
                   nedits, docs>>

\* translations.preOutputTransform(geometries, features) with a hook of the
\* translation file that calls mergePoints() again.
PreOutputTransformMerge ==
    /\ pc = "preOutputTransform"
    /\ \E gdesc \in BOOLEAN, pdesc \in BOOLEAN :
          LET S == mergePoints(State, gdesc, pdesc)
          IN  /\ Install(S)
              /\ pc' = IF S.err # NoErr THEN "crashed" ELSE "output"
    /\ op' = Op("preOutputTransform", <<"mergePoints">>, 0)
    /\ UNCHANGED <<zpoints, nread, nedits, docs>>

Output ==
    /\ pc = "output"
    /\ Install(outputGraph(State))
    /\ docs' = Append(docs, outputDoc(State))
    /\ pc' = "done"
    /\ op' = Op("output", <<>>, 0)
    /\ UNCHANGED <<zpoints, nread, nedits>>

Next ==
    \/ getzPoint \/ ParseFeature \/ MergePoints
    \/ PreOutputTransform \/ PreOutputTransformMerge \/ Output

Spec == Init /\ [][Next]_vars

\* ------------------------------------------------------------- the graph interface
\* The classes and functions called one at a time with any arguments, as a
\* translation hook that is handed geometries and features may call them:
\* first the calls that build a graph, then the calls that edit it
\* (removeparent, replacejwithi, mergePoints), then output().  An exception
\* ends the sequence.
InitGraph ==
    /\ objs = <<>>
    /\ geometries = <<>>
    /\ features = <<>>
    /\ elementIdCounter = 0
    /\ zpoints = <<>>
    /\ err = NoErr
    /\ pc = "graph"
    /\ nread = 0
    /\ nedits = 0
    /\ docs = <<>>
    /\ op = Op("init", <<>>, 0)

Running == pc = "graph" /\ err = NoErr

Building == Running /\ nedits = 0 /\ op.name # "mergePoints" /\ docs = <<>>

Editing == Running /\ docs = <<>>

GPoint ==
    /\ Building
    /\ Len(objs) < MaxGraphObjs
    /\ \E c \in Coords :
          /\ Install(Point(State, c[1], c[2], 0))
          /\ op' = Op("Point", <<c[1], c[2], 0>>, Len(objs) + 1)
    /\ UNCHANGED <<zpoints, pc, nread, nedits, docs>>

GWay ==
    /\ Building
    /\ Len(objs) < MaxGraphObjs
    /\ Install(Way(State))
    /\ op' = Op("Way", <<>>, Len(objs) + 1)
    /\ UNCHANGED <<zpoints, pc, nread, nedits, docs>>

GRelation ==
    /\ Building
    /\ Len(objs) < MaxGraphObjs
    /\ Install(Relation(State))
    /\ op' = Op("Relation", <<>>, Len(objs) + 1)
    /\ UNCHANGED <<zpoints, pc, nread, nedits, docs>>

\* way.points.append(point); point.addparent(way), as parseLineString does.
GAppendPoint ==
    /\ Building
    /\ \E w \in HandlesOf("Way"), p \in HandlesOf("Point") :
          /\ Len(objs[w].points) < MaxSlots
          /\ Install(appendPoint(State, w, p))
          /\ op' = Op("appendPoint", <<w, p>>, 0)
    /\ UNCHANGED <<zpoints, pc, nread, nedits, docs>>

\* way.addparent(relation); relation.members.append((way, role)), as
\* parsePolygon does.
GAppendMember ==
    /\ Building
    /\ \E r \in HandlesOf("Relation"), w \in HandlesOf("Way"), role \in Roles :
          /\ Len(objs[r].members) < MaxSlots
          /\ Install(appendMember(State, r, w, role))
          /\ op' = Op("appendMember", <<r, w, role>>, 0)
    /\ UNCHANGED <<zpoints, pc, nread, nedits, docs>>

\* A Feature over a geometry, as parseFeature builds it.
GFeature ==
    /\ Building
    /\ Len(features) < MaxGraphFeatures
    /\ \E g \in Handles, d \in Directions :
          /\ Install(attachFeature(State, g, getFeatureTags(Rec("", "A", d, <<>>, <<>>))))
          /\ op' = Op("Feature", <<g, d>>, Len(features) + 1)
    /\ UNCHANGED <<zpoints, pc, nread, nedits, docs>>

GRemoveParent ==
    /\ Editing
    /\ nedits < MaxEdits
    /\ \E e \in Handles, parent \in ParentRefs, shoulddestroy \in BOOLEAN :
          /\ Install(removeparent(State, e, parent, shoulddestroy))
          /\ op' = Op("removeparent", <<e, parent, shoulddestroy>>, 0)
    /\ nedits' = nedits + 1
    /\ UNCHANGED <<zpoints, pc, nread, docs>>

GReplace ==
    /\ Editing
    /\ nedits < MaxEdits
    /\ \E parent \in ParentRefs, i \in Handles, j \in Handles :
          /\ Install(replacejwithi(State, parent, i, j))
          /\ op' = Op("replacejwithi", <<parent, i, j>>, 0)
    /\ nedits' = nedits + 1
    /\ UNCHANGED <<zpoints, pc, nread, docs>>

GMergePoints ==
    /\ Editing
    /\ \E gdesc \in BOOLEAN, pdesc \in BOOLEAN :
          Install(mergePoints(State, gdesc, pdesc))
    /\ op' = Op("mergePoints", <<>>, 0)
    /\ UNCHANGED <<zpoints, pc, nread, nedits, docs>>

GOutput ==
    /\ Running
    /\ Len(docs) < MaxOutputCalls
    /\ Install(outputGraph(State))
    /\ docs' = Append(docs, outputDoc(State))
    /\ op' = Op("output", <<>>, 0)
    /\ UNCHANGED <<zpoints, pc, nread, nedits>>

NextGraph ==
    \/ GPoint \/ GWay \/ GRelation \/ GAppendPoint \/ GAppendMember \/ GFeature
    \/ GRemoveParent \/ GReplace \/ GMergePoints \/ GOutput

SpecGraph == InitGraph /\ [][NextGraph]_vars

\* ------------------------------------------------------------- properties
Live == Range(geometries)

LivePoints == {p \in Live : objs[p].type = "Point"}

\* The parent holds a concrete reference to the Geometry e: in Way.points,
\* in Relation.members or in Feature.geometry.
HoldsRef(parent, e) ==
    IF parent[1] = "F" THEN features[parent[2]].geometry = e
    ELSE \/ e \in Range(objs[parent[2]].points)
         \/ \E k \in DOMAIN objs[parent[2]].members : objs[parent[2]].members[k][1] = e

ParentChildSymmetry ==
    \A e \in Live : \A parent \in ParentRefs : parent \in objs[e].parents <=> HoldsRef(parent, e)

\* The arguments a caller that substitutes i for j hands to
\* parent.replacejwithi(i, j): parent holds j, and i is another live entity
\* of j's class.
SubstitutionCall(parent, i, j) ==
    /\ HoldsRef(parent, j)
    /\ i # j
    /\ {i, j} \subseteq Live
    /\ objs[i].type = objs[j].type
    /\ parent[1] = "G" => parent[2] \in Live

\* C1: every graph operation (building a Way, Relation or Feature over its
\* members, mergePoints, and replacejwithi with the addparent and
\* removeparent calls it makes) leaves the parent sets and the concrete
\* references of the live entities mirror images of each other.  The claim
\* speaks of any arguments i and j; it is stated here for the calls that
\* substitute i for a j the parent holds, which it covers.
C1_SymmetryKept ==
    [][(/\ \/ op'.name \in {"Point", "Way", "Relation", "appendPoint", "appendMember",
                            "Feature", "mergePoints"}
           \/ /\ op'.name = "replacejwithi"
              /\ SubstitutionCall(op'.args[1], op'.args[2], op'.args[3])
        /\ ParentChildSymmetry)
       => ParentChildSymmetry']_vars

\* The Point that mergePoints keeps for p: the first live Point at p's
\* location.
Survivor(p) ==
    IF p \in LivePoints THEN pointsatloc(State, location(State, p))[1] ELSE p

\* C2: after mergePoints no two live Points have the same (x, y, z), and
\* every slot of a Way and every Feature that referenced a Point references
\* that Point's survivor, slot by slot.
C2_MergeCorrect ==
    [][(op'.name = "mergePoints" /\ err' = NoErr) =>
          /\ \A p, q \in LivePoints' :
                p # q => <<objs'[p].x, objs'[p].y, objs'[p].z>>
                             # <<objs'[q].x, objs'[q].y, objs'[q].z>>
          /\ \A w \in HandlesOf("Way") :
                objs'[w].points = [k \in DOMAIN objs[w].points |-> Survivor(objs[w].points[k])]
          /\ \A f \in DOMAIN features :
                features'[f].geometry = Survivor(features[f].geometry)]_vars

\* The ids of the elements of kind rec among the first n elements of doc.
IdsBefore(doc, rec, n) == {doc[k].id : k \in {m \in 1..(n - 1) : doc[m].rec = rec}}

\* C3: in every document written, every nd ref of a way is the id of a node
\* written earlier and every member ref of a relation is the id of a way
\* written earlier.
C3_ReferentialClosure ==
    \A d \in DOMAIN docs : \A n \in DOMAIN docs[d] :
        /\ docs[d][n].rec = "way" =>
               \A k \in DOMAIN docs[d][n].refs :
                   docs[d][n].refs[k] \in IdsBefore(docs[d], "node", n)
        /\ docs[d][n].rec = "relation" =>
               \A k \in DOMAIN docs[d][n].refs :
                   docs[d][n].refs[k][1] \in IdsBefore(docs[d], "way", n)

\* A document was written after mergePoints destroyed a duplicate, and a way
\* in it has nd refs.
C3_Witness ==
    /\ pc = "done"
    /\ Len(geometries) < Len(objs)
    /\ \E n \in DOMAIN docs[1] : docs[1][n].rec = "way" /\ Len(docs[1][n].refs) >= 2

\* C4: a removeparent call with shoulddestroy that leaves the parent set
\* empty leaves the entity out of geometries; without shoulddestroy an
\* entity in geometries stays in it; an entity out of geometries never comes
\* back, and output() writes no element for it.
C4_OrphanCollected ==
    [][/\ op'.name = "removeparent" =>
             /\ (op'.args[3] /\ objs'[op'.args[1]].parents = {}) => op'.args[1] \notin Live'
             /\ (~op'.args[3] /\ op'.args[1] \in Live) => op'.args[1] \in Live'
       /\ \A e \in Handles : e \notin Live => e \notin Live'
       /\ op'.name = "output" =>
             \A e \in Handles : e \notin Live =>
                 \A n \in DOMAIN docs'[Len(docs')] : docs'[Len(docs')][n].id # objs[e].id]_vars

\* removeparent has just taken the last parent, a Way that still lists the
\* Point, and the Point has left geometries.
C4_Witness ==
    /\ op.name = "removeparent" /\ op.args[3] /\ err = NoErr
    /\ objs[op.args[1]].parents = {}
    /\ op.args[1] \notin Live
    /\ op.args[2][1] = "G"
    /\ op.args[1] \in Range(objs[op.args[2][2]].points)

\* C5: the second document lists the nd refs of every way that carries
\* oneway = yes and rDirection = yes in the order the first document does.
C5_ReversedOnce ==
    Len(docs) >= 2 =>
        \A n \in DOMAIN docs[1] :
            (/\ docs[1][n].rec = "way"
             /\ docs[1][n].tags # NoTags
             /\ docs[1][n].tags.oneway = "yes"
             /\ docs[1][n].tags.rDirection = "yes")
            => docs[2][n].refs = docs[1][n].refs

\* C6: parseFeature on a polygon record with two rings returns a Relation
\* with the members (W1, outer), (W2, inner), W1 and W2 distinct live Ways
\* with the Relation among their parents; a Feature holds the Relation, and
\* no Relation without members and parents is in geometries.
C6_TwoRingPolygon ==
    (/\ op.name = "parseFeature"
     /\ op.args[1].kind = "polygon"
     /\ Len(op.args[1].parts) = 2)
    => /\ op.ret # 0
       /\ objs[op.ret].type = "Relation"
       /\ Len(objs[op.ret].members) = 2
       /\ objs[op.ret].members[1][2] = "outer"
       /\ objs[op.ret].members[2][2] = "inner"
       /\ objs[op.ret].members[1][1] # objs[op.ret].members[2][1]
       /\ \A k \in 1..2 :
             /\ objs[objs[op.ret].members[k][1]].type = "Way"
             /\ objs[op.ret].members[k][1] \in Live
             /\ GRef(op.ret) \in objs[objs[op.ret].members[k][1]].parents
       /\ \E f \in DOMAIN features : features[f].geometry = op.ret
       /\ \A r \in Live :
             objs[r].type = "Relation" => objs[r].members # <<>> \/ objs[r].parents # {}

\* C7: the ids of the Geometries, in the order of construction, start at -1
\* and strictly decrease, the counter has moved once per Geometry, and so no
\* two Geometries, live or destroyed, share an id and no id is 0 or more.
C7_IdentityAllocation ==
    /\ elementIdCounter = -Len(objs)
    /\ Len(objs) > 0 => objs[1].id = -1
    /\ \A k, m \in Handles : k < m => objs[m].id < objs[k].id
    /\ \A k, m \in Handles : k # m => objs[k].id # objs[m].id
    /\ \A k \in Handles : objs[k].id < 0

\* Three Geometries were constructed and one of them was destroyed.
C7_Witness == Len(objs) >= 3 /\ Len(geometries) < Len(objs)

\* C8: no two Features hold the same geometry.
C8_OneFeaturePerGeometry ==
    \A f, g \in DOMAIN features : f # g => features[f].geometry # features[g].geometry

\* C9: r.replacejwithi(i, j) on a Relation r with the member Way j and
\* another Way i turns every slot (j, role) into (i, role), keeps every other
\* slot, and leaves no slot that refers to j.
C9_RelationReplace ==
    [][(/\ op'.name = "replacejwithi"
        /\ err' = NoErr
        /\ op'.args[1][1] = "G"
        /\ objs[op'.args[1][2]].type = "Relation"
        /\ op'.args[2] # op'.args[3]
        /\ objs[op'.args[2]].type = "Way"
        /\ \E k \in DOMAIN objs[op'.args[1][2]].members :
              objs[op'.args[1][2]].members[k][1] = op'.args[3])
       => LET r == op'.args[1][2]
              i == op'.args[2]
              j == op'.args[3]
          IN  /\ objs'[r].members =
                    [k \in DOMAIN objs[r].members |->
                        IF objs[r].members[k][1] = j
                        THEN <<i, objs[r].members[k][2]>>
                        ELSE objs[r].members[k]]
              /\ \A k \in DOMAIN objs'[r].members : objs'[r].members[k][1] # j]_vars

\* C10: when output() starts, every live Point has a parent.
C10_NoOrphanNodes == pc = "output" => \A p \in LivePoints : objs[p].parents # {}

\* No live parent (a live Geometry, or a Feature) holds a reference to a
\* Geometry that is out of geometries.
NoDanglingRef ==
    \A parent \in ParentRefs :
        (parent[1] = "G" => parent[2] \in Live)
        => \A e \in Handles : HoldsRef(parent, e) => e \in Live

\* C11: parent.replacejwithi(i, j), for a live parent that holds j and live
\* i and j of one class, i = j included, ends with every entity that a live
\* parent references in geometries (as it does when the parent edge is added
\* to i before it is taken from j).
C11_ReplaceKeepsReferencedLive ==
    [][(/\ op'.name = "replacejwithi"
        /\ err' = NoErr
        /\ HoldsRef(op'.args[1], op'.args[3])
        /\ {op'.args[2], op'.args[3]} \subseteq Live
        /\ objs[op'.args[2]].type = objs[op'.args[3]].type
        /\ op'.args[1][1] = "G" => op'.args[1][2] \in Live
        /\ NoDanglingRef)
       => NoDanglingRef']_vars

\* The (x, y, z) of the Point p, read from its fields.
Triple(p) == <<objs[p].x, objs[p].y, objs[p].z>>

\* The position of the live Geometry e in geometries.
PosIn(e) == CHOOSE k \in DOMAIN geometries : geometries[k] = e

\* p is the first of the live Points with its (x, y, z), in the order of
\* geometries.
FirstOfTriple(p) ==
    /\ p \in LivePoints
    /\ \A q \in LivePoints : Triple(q) = Triple(p) => PosIn(p) <= PosIn(q)

\* mergePoints left the reference old as it was, or rewrote it to the first
\* live Point with old's (x, y, z).
KeptOrFirst(old, new) ==
    \/ new = old
    \/ /\ old \in LivePoints
       /\ Triple(new) = Triple(old)
       /\ FirstOfTriple(new)

\* C12: mergePoints groups by the exact (x, y, z).  The first live Point of
\* every triple stays in geometries (so of two Points whose triples differ,
\* at the same x, y with z 0 and 1 in particular, neither is merged into the
\* other), and every slot of a Way and every Feature is left alone or
\* rewritten to the first live Point with the very triple of the Point it
\* held, never to a Point with another triple.
C12_ExactKeyGrouping ==
    [][(op'.name = "mergePoints" /\ err' = NoErr) =>
          /\ \A p \in LivePoints : FirstOfTriple(p) => p \in Live'
          /\ \A w \in HandlesOf("Way") :
                /\ DOMAIN objs'[w].points = DOMAIN objs[w].points
                /\ \A k \in DOMAIN objs[w].points :
                      KeptOrFirst(objs[w].points[k], objs'[w].points[k])
          /\ \A f \in DOMAIN features :
                KeptOrFirst(features[f].geometry, features'[f].geometry)]_vars

\* mergePoints has run on a graph with two referenced Points at one x, y
\* with z 0 and 1, merged a duplicate away, and left both of them live.
C12_Witness ==
    /\ op.name = "mergePoints"
    /\ err = NoErr
    /\ HandlesOf("Point") \ Live # {}
    /\ \E p, q \in LivePoints :
          /\ objs[p].x = objs[q].x /\ objs[p].y = objs[q].y
          /\ objs[p].z = 0 /\ objs[q].z = 1
          /\ objs[p].parents # {} /\ objs[q].parents # {}

\* C13: mergePoints run a second time, by the preOutputTransform hook on the
\* graph the first run left, ends without an error and changes nothing:
\* geometries, every Way's points, every Feature's geometry and every
\* parent set are as the first run left them.
C13_MergeIdempotent ==
    [][(op'.name = "preOutputTransform" /\ op'.args = <<"mergePoints">>) =>
          /\ err' = NoErr
          /\ geometries' = geometries
          /\ objs' = objs
          /\ features' = features]_vars

\* The second run has ended on a graph from which the first run merged a
\* duplicate away, with three or more Points of one (x, y, z) built.
C13_Witness ==
    /\ op.name = "preOutputTransform"
    /\ op.args = <<"mergePoints">>
    /\ pc = "output"
    /\ HandlesOf("Point") \ Live # {}
    /\ \E p \in LivePoints :
          Cardinality({q \in HandlesOf("Point") : Triple(q) = Triple(p)}) >= 3

====
